---- MODULE Spec2Model ----
(***************************************************************************)
(* A model of GarminShareTracker (streamlit_app.py): the vessel registry,  *)
(* the position fetcher with its cooldown cache and its single 429 retry,  *)
(* the bounded history, and the refresh cycle of update_positions.         *)
(*                                                                         *)
(* Python's None is the empty tuple and a present value v is <<v>>, so     *)
(* that optional values of every kind can be compared.                     *)
(***************************************************************************)
EXTENDS Integers, Sequences, FiniteSets, TLC

VARIABLES
    boats,              \* self.boats: name -> boat_info
    order,              \* insertion order of self.boats (a dict keeps it)
    colors,             \* self.colors: the palette still available
    last_update_time,   \* self.last_update_time: name -> time of last stored fetch
    map,                \* self.map: None or the folium map
    proximity_circle,   \* self.proximity_circle: None or the circle drawn
    now,                \* the wall clock read by time.time()
    pc,                 \* where update_positions stands: "idle" or "loop"
    idx,                \* position of the for-loop of update_positions in order
    cycles,             \* refresh cycles started (bounded by MaxCycles)
    adds,               \* add_boat calls made (bounded by MaxAdds)
    refreshed,          \* names whose fetcher was invoked in the current/last cycle
    cycle_result,       \* how the last update_positions ended: "none", "ok", "raised"
    last_call,          \* record of the last get_position call
    last_add,           \* record of the last add_boat call
    last_closest,       \* what the last find_closest_boat_to_noronha call returned
    appended,           \* name -> every pair appended to the vessel's history deque
    waited,             \* whether time has passed since the last refresh cycle
    step                \* the operation that led to this state

vars == <<boats, order, colors, last_update_time, map, proximity_circle, now,
          pc, idx, cycles, adds, refreshed, cycle_result, last_call, last_add,
          last_closest, appended, waited, step>>

-----------------------------------------------------------------------------
(* Bounds of the model *)

HistoryLength == 2      \* history_length handed to the constructor
MaxCycles == 2          \* refresh cycles explored, with every answer of the provider
MaxSteadyCycles == 4    \* refresh cycles explored, with the answers of SteadyAnswersFor
MaxAdds == 2            \* add_boat calls explored
MaxCyclesBeforeAdd == 0 \* add_boat is explored until this many cycles have started
MaxDraw == 1            \* random.choice draws among the first MaxDraw free colors
StartTime == 1000       \* the clock when the tracker is constructed
MaxRegistrations == 7   \* add_boat calls explored on a tracker that only registers

Names == {"Contessa", "Azuluc"}

\* The boats of the script, and three more to exhaust the palette
Fleet ==
    <<"Contessa", "Azuluc", "Finisterre", "Yorugua", "Quinta", "Sexta", "Septima">>

\* Idle time between two refresh cycles (seconds): with the two seconds a
\* fetch sleeps at least, the next call falls exactly on the cooldown.
Deltas == {298}

-----------------------------------------------------------------------------
(* Program constants *)

CooldownSecs == 300         \* get_position: cache window
BackoffSecs == 120          \* get_position: sleep before the 429 retry
BasePageErrorSleep == 5     \* get_position: sleep after a non-200 share page
HumanPauseSecs == 2         \* get_position: sleep between page and feed request
MetersPerNm == 1852
RadiusNm == 10

Palette == <<"blue", "red", "green", "purple", "orange", "darkred">>

None == <<>>
Some(v) == <<v>>
Truthy(x) == x # None       \* a non-empty dict or object is truthy

-----------------------------------------------------------------------------
(* The provider's answers.  A JSON member is [k, n]: k tells whether the   *)
(* key is absent, null, a number n, or (speed, elevation) an object whose  *)
(* "value" member is absent, null or the number n.                         *)

J(k, n) == [k |-> k, n |-> n]
Absent == J("absent", 0)
Null == J("null", 0)
Num(n) == J("num", n)
Obj(n) == J("obj_num", n)
ObjNoValue == J("obj_novalue", 0)
ObjNullValue == J("obj_null", 0)

EntryFull ==
    [latitude |-> Num(-50000), longitude |-> Num(-350000), timestamp |-> Num(1700),
     speed |-> Obj(5), course |-> Num(90), elevation |-> Obj(3)]
EntryBare ==
    [latitude |-> Num(-40000), longitude |-> Num(-330000), timestamp |-> Absent,
     speed |-> Absent, course |-> Absent, elevation |-> ObjNoValue]
EntryNoLat == [EntryFull EXCEPT !.latitude = Absent]
EntrySpeedNull == [EntryFull EXCEPT !.speed = Null]

Entries == {EntryFull, EntryBare, EntryNoLat, EntrySpeedNull}

\* A response of session.get: an HTTP answer, or the exception it raised.
Http(status, body, entry) ==
    [kind |-> "http", status |-> status, body |-> body, entry |-> entry]
HttpStatus(status) == Http(status, "na", EntryFull)
TimeoutExc == [kind |-> "timeout", status |-> 0, body |-> "na", entry |-> EntryFull]
ConnectionExc == [kind |-> "connerr", status |-> 0, body |-> "na", entry |-> EntryFull]
NoResponse == [kind |-> "unused", status |-> 0, body |-> "na", entry |-> EntryFull]

BaseResponses == {HttpStatus(200), HttpStatus(500), TimeoutExc, ConnectionExc}
FeedResponses ==
    {Http(200, "locs", e) : e \in Entries}
    \cup {Http(200, b, EntryFull) : b \in {"badjson", "notdict", "nolocs"}}
    \cup {HttpStatus(429), HttpStatus(500), TimeoutExc, ConnectionExc}

-----------------------------------------------------------------------------
(* dict.get as get_position uses it on the first location entry *)

\* location.get(key): None when the key is absent or null
Get(j) == IF j.k = "num" THEN Some(j.n) ELSE None

\* location.get(key, 0): the default only when the key is absent
GetDefault0(j) ==
    IF j.k = "absent" THEN Some(0)
    ELSE IF j.k = "num" THEN Some(j.n) ELSE None

\* location.get(key, {}).get('value', 0)
GetValue0(j) ==
    IF j.k \in {"absent", "obj_novalue"} THEN Some(0)
    ELSE IF j.k = "obj_num" THEN Some(j.n) ELSE None

\* .get('value', 0) on something that is no dict raises AttributeError
GetValueRaises(j) == j.k \in {"null", "num"}

ParseRaises(location) ==
    GetValueRaises(location.speed) \/ GetValueRaises(location.elevation)

position_data(location) ==
    [lat |-> Get(location.latitude),
     lon |-> Get(location.longitude),
     timestamp |-> Get(location.timestamp),
     speed |-> GetValue0(location.speed),
     course |-> GetDefault0(location.course),
     elevation |-> GetValue0(location.elevation)]

-----------------------------------------------------------------------------
(* get_position(share_id, boat_name).  Its outcome is the record           *)
(*   ret      the value returned (None or a Fix)                           *)
(*   cached   boats[boat_name]['cached_position'] after the call           *)
(*   lut      last_update_time[boat_name] after the call                   *)
(*   requests the session.get calls made, each with the answer it got      *)
(*   slept    the seconds spent in time.sleep                              *)
(*   log      the st.info / st.warning / st.error messages shown           *)
(*   raised   whether an exception left the function                       *)

Outcome(ret, cached, lut, requests, slept, log) ==
    [ret |-> ret, cached |-> cached, lut |-> lut, requests |-> requests,
     slept |-> slept, log |-> log, raised |-> FALSE]

base_url(share_id) == <<"https://share.garmin.com", share_id>>
position_url(share_id) == <<"https://share.garmin.com", "Feed", "Share", share_id>>
Request(url, resp) == [url |-> url, resp |-> resp]

\* the cooldown gate with the window of an earlier revision
CacheHitShortWindow(b, t) ==
    /\ t - last_update_time[b] < 60
    /\ Truthy(boats[b].cached_position)

\* lines 67-71: the cooldown gate
CacheHit(b, t) ==
    /\ t - last_update_time[b] < CooldownSecs
    /\ Truthy(boats[b].cached_position)

\* a timeout that counts as a fetch and starts the cooldown
OnTimeoutStampsTime(b, requests, slept, log) ==
    Outcome(None, boats[b].cached_position, now, requests, slept,
            log \o <<"error_timeout">>)

\* lines 153-155: except requests.exceptions.Timeout
OnTimeout(b, requests, slept, log) ==
    Outcome(None, boats[b].cached_position, last_update_time[b], requests, slept,
            log \o <<"error_timeout">>)

\* except Exception that lets the exception go on
OnExceptionReraises(b, requests, slept, log) ==
    [Outcome(None, boats[b].cached_position, last_update_time[b], requests, slept,
             log \o <<"error_exception">>) EXCEPT !.raised = TRUE]

\* lines 156-161: except Exception, falling back to the cached position
OnException(b, requests, slept, log) ==
    Outcome(IF Truthy(boats[b].cached_position) THEN boats[b].cached_position ELSE None,
            boats[b].cached_position, last_update_time[b], requests, slept,
            log \o <<"error_exception">>)

\* return None that also forgets the cached position
ReturnNoneDropsCache(b, requests, slept, log, msg) ==
    Outcome(None, None, 0, requests, slept, log \o <<msg>>)

\* lines 121-134: the three return None of the try block
ReturnNone(b, requests, slept, log, msg) ==
    Outcome(None, boats[b].cached_position, last_update_time[b], requests, slept,
            log \o <<msg>>)

\* the position stored without line 148
StorePositionKeepsTime(b, t, location, requests, slept, log) ==
    Outcome(Some(position_data(location)), Some(position_data(location)),
            last_update_time[b], requests, slept, log)

\* lines 136-151: build the position, store it in the cache, return it
StorePosition(b, t, location, requests, slept, log) ==
    Outcome(Some(position_data(location)), Some(position_data(location)), t,
            requests, slept, log)

\* lines 120-151: what is done with the last answer of the feed
ProcessFeedResponse(b, t, r, requests, slept, log) ==
    IF r.kind = "timeout" THEN OnTimeout(b, requests, slept, log)
    ELSE IF r.kind = "connerr" THEN OnException(b, requests, slept, log)
    ELSE IF r.status # 200 THEN ReturnNone(b, requests, slept, log, "error_status")
    ELSE IF r.body = "badjson" THEN ReturnNone(b, requests, slept, log, "error_json")
    ELSE IF r.body = "notdict" THEN OnException(b, requests, slept, log)
    ELSE IF r.body = "nolocs" THEN ReturnNone(b, requests, slept, log, "error_nolocations")
    ELSE IF ParseRaises(r.entry) THEN OnException(b, requests, slept, log)
    ELSE StorePosition(b, t, r.entry, requests, slept, log)

\* no retry at all
NeedsRetryNever(r) == FALSE

\* lines 114-118: a 429 on the feed request is waited out and asked again
NeedsRetry(r) == r.kind = "http" /\ r.status = 429

\* lines 110-151: the feed request, its retry, and the rest
FeedRequest(b, t, r2, r3, requests, slept, log) ==
    LET url == position_url(boats[b].share_id)
        reqs2 == Append(requests, Request(url, r2))
    IN  IF NeedsRetry(r2)
        THEN ProcessFeedResponse(b, t, r3, Append(reqs2, Request(url, r3)),
                                 slept + BackoffSecs, log \o <<"warning_429">>)
        ELSE ProcessFeedResponse(b, t, r2, reqs2, slept, log)

\* lines 92-101: the visit of the share page
BaseRequest(b, t, r1, r2, r3) ==
    LET reqs1 == <<Request(base_url(boats[b].share_id), r1)>>
    IN  IF r1.kind = "timeout" THEN OnTimeout(b, reqs1, 0, <<>>)
        ELSE IF r1.kind = "connerr" THEN OnException(b, reqs1, 0, <<>>)
        ELSE IF r1.status # 200
        THEN FeedRequest(b, t, r2, r3, reqs1, BasePageErrorSleep + HumanPauseSecs,
                         <<"warning_page">>)
        ELSE FeedRequest(b, t, r2, r3, reqs1, HumanPauseSecs, <<>>)

\* lines 63-161
get_position(b, t, r1, r2, r3) ==
    IF CacheHit(b, t)
    THEN Outcome(boats[b].cached_position, boats[b].cached_position,
                 last_update_time[b], <<>>, 0, <<"info_cache">>)
    ELSE BaseRequest(b, t, r1, r2, r3)

\* The answers a call can consume: none on a cache hit, no feed answer after
\* a share page that raised, a third answer only after a 429.  A share page
\* that answers with an error is explored with a good and a failing feed.
AnswersFor(b, t) ==
    IF CacheHit(b, t) THEN {<<NoResponse, NoResponse, NoResponse>>}
    ELSE {<<r1, NoResponse, NoResponse>> : r1 \in {r \in BaseResponses : r.kind # "http"}}
         \cup {<<HttpStatus(200), r2, NoResponse>> :
                  r2 \in {r \in FeedResponses : ~NeedsRetry(r)}}
         \cup {<<HttpStatus(200), r2, r3>> :
                  r2 \in {r \in FeedResponses : NeedsRetry(r)},
                  r3 \in FeedResponses}
         \cup {<<HttpStatus(500), r2, NoResponse>> :
                  r2 \in {Http(200, "locs", EntryFull), HttpStatus(500)}}

\* The answers of a provider that is up: a position or a server error.
SteadyAnswersFor(b, t) ==
    IF CacheHit(b, t) THEN {<<NoResponse, NoResponse, NoResponse>>}
    ELSE {<<HttpStatus(200), r2, NoResponse>> :
             r2 \in {Http(200, "locs", EntryFull), Http(200, "locs", EntryBare),
                     HttpStatus(500)}}

-----------------------------------------------------------------------------
(* The registry *)

\* garmin_url.split('/')[-1], the url given as its '/'-separated pieces
extract_share_id(garmin_url) == garmin_url[Len(garmin_url)]

ShareUrl(name) ==
    <<"https:", "", "share.garmin.com",
      CASE name = "Contessa" -> "contessa"
        [] name = "Azuluc" -> "AZULUC"
        [] name = "Finisterre" -> "FINISTERRE"
        [] name = "Yorugua" -> "YoruguaSY"
        [] OTHER -> name>>

\* a removal that leaves the list as it is
ListRemoveNothing(list, x) == list

\* list.remove(x): drops the first occurrence of x
RECURSIVE ListRemove(_, _)
ListRemove(list, x) ==
    IF list = <<>> THEN <<>>
    ELSE IF Head(list) = x THEN Tail(list)
    ELSE <<Head(list)>> \o ListRemove(Tail(list), x)

Range(seq) == {seq[i] : i \in 1..Len(seq)}

\* lines 51-60: the boat_info of a newly added boat
NewBoatInfo(share_id, color) ==
    [share_id |-> share_id, marker |-> None, path |-> None, color |-> color,
     history |-> <<>>, last_update |-> None, cached_position |-> None]

\* a full buffer that refuses the new entry instead of dropping the oldest
DequeAppendDropsNewest(history, x) ==
    IF Len(history) < HistoryLength THEN Append(history, x) ELSE history

\* deque(maxlen=history_length).append(x)
DequeAppend(history, x) ==
    IF HistoryLength = 0 THEN <<>>
    ELSE IF Len(history) < HistoryLength THEN Append(history, x)
    ELSE Append(Tail(history), x)

\* lines 163-186: the f-string formats speed, lat, lon and elevation with
\* a float format, which raises TypeError on None
PopupRaises(position) ==
    \/ position.speed = None
    \/ position.lat = None
    \/ position.lon = None
    \/ position.elevation = None

-----------------------------------------------------------------------------
(* Distances.  Coordinates are in 1/10000 degree, distances in 1/1000 nm;  *)
(* calculate_distance is the haversine formula evaluated at the points     *)
(* the model's location entries use.                                       *)

noronha_coords == <<-38547, -324248>>

calculate_distance(lat1, lon1, lat2, lon2) ==
    CASE <<lat1, lon1>> = <<lat2, lon2>> -> 0
      [] <<lat1, lon1, lat2, lon2>> = <<-38547, -324248, -50000, -350000>> -> 168794
      [] <<lat1, lon1, lat2, lon2>> = <<-38547, -324248, -40000, -330000>> -> 35541

nautical_miles_to_meters(nm) == nm * MetersPerNm

\* radians(None) raises TypeError
DistanceRaises(position) == position.lat = None \/ position.lon = None

\* lines 188-206, from the i-th boat on; best is <<boat, position, distance>>
\* with None for no boat and for an infinite distance
RECURSIVE ClosestFrom(_, _)
ClosestFrom(i, best) ==
    IF i > Len(order) THEN best
    ELSE LET info == boats[order[i]]
         IN  IF ~Truthy(info.last_update) THEN ClosestFrom(i + 1, best)
             ELSE LET position == info.last_update[1]
                      distance == calculate_distance(noronha_coords[1], noronha_coords[2],
                                                     position.lat[1], position.lon[1])
                  IN  IF best[3] = None \/ distance < best[3][1]
                      THEN ClosestFrom(i + 1, <<Some(order[i]), Some(position), Some(distance)>>)
                      ELSE ClosestFrom(i + 1, best)

find_closest_boat_to_noronha == ClosestFrom(1, <<None, None, None>>)

\* the loop of lines 193-199 meets a last_update without lat or lon
FindClosestRaises ==
    \E n \in Range(order) :
        Truthy(boats[n].last_update) /\ DistanceRaises(boats[n].last_update[1])

-----------------------------------------------------------------------------
(* The state after GarminShareTracker(history_length), lines 20-29 *)

NoCall ==
    [boat |-> "", time |-> 0, ret |-> None, requests |-> <<>>, log |-> <<>>,
     raised |-> FALSE, cached_before |-> None, lut_before |-> 0,
     boats_before |-> <<>>, times_before |-> <<>>]

NoAdd ==
    [result |-> "none", name |-> "", boats_before |-> <<>>,
     times_before |-> <<>>, colors_before |-> <<>>]

\* no find_closest_boat_to_noronha call yet
NoClosest == [result |-> "none", closest |-> <<None, None, None>>, circle_before |-> None]

Init ==
    /\ boats = <<>>
    /\ order = <<>>
    /\ colors = Palette
    /\ last_update_time = <<>>
    /\ map = None
    /\ proximity_circle = None
    /\ now = StartTime
    /\ pc = "idle"
    /\ idx = 0
    /\ cycles = 0
    /\ adds = 0
    /\ refreshed = <<>>
    /\ cycle_result = "none"
    /\ last_call = NoCall
    /\ last_add = NoAdd
    /\ last_closest = NoClosest
    /\ appended = <<>>
    /\ waited = TRUE
    /\ step = "__init__"

\* f with f[k] = v, k added to the domain when it is new (dict[k] = v)
DictSet(f, k, v) == [x \in DOMAIN f \cup {k} |-> IF x = k THEN v ELSE f[x]]

\* the record of an add_boat call: how it ended ("none", "ok", "raised")
\* and the registry it found
AddRecord(result, name) ==
    [result |-> result, name |-> name, boats_before |-> boats,
     times_before |-> last_update_time, colors_before |-> colors]

\* lines 47-61, color being the draw of random.choice(self.colors)
add_boat(name, garmin_share_url, color) ==
    /\ color \in Range(colors)
    /\ colors' = ListRemove(colors, color)
    /\ boats' = DictSet(boats, name, NewBoatInfo(extract_share_id(garmin_share_url), color))
    /\ order' = IF name \in DOMAIN boats THEN order ELSE Append(order, name)
    /\ last_update_time' = DictSet(last_update_time, name, 0)
    /\ appended' = DictSet(appended, name, <<>>)
    /\ last_add' = AddRecord("ok", name)

\* a failed call that nevertheless left an entry for the boat
AddBoatRaisedAfterInsert(name) ==
    /\ last_add' = AddRecord("raised", name)
    /\ boats' = DictSet(boats, name, NewBoatInfo(extract_share_id(ShareUrl(name)), "none"))
    /\ order' = IF name \in DOMAIN boats THEN order ELSE Append(order, name)
    /\ last_update_time' = DictSet(last_update_time, name, 0)
    /\ appended' = DictSet(appended, name, <<>>)
    /\ UNCHANGED colors

\* line 48: random.choice raises IndexError on an empty palette, before
\* anything is assigned
AddBoatRaised(name) ==
    /\ last_add' = AddRecord("raised", name)
    /\ UNCHANGED <<boats, order, colors, last_update_time, appended>>

\* the first max_draw colors of the palette still available
FirstColors(max_draw) ==
    {colors[i] : i \in 1..(IF Len(colors) < max_draw THEN Len(colors) ELSE max_draw)}

\* One add_boat call, for one of names and a draw among FirstColors(max_draw)
AddBoatFrom(max_adds, max_draw, names) ==
    /\ pc = "idle"
    /\ adds < max_adds
    /\ cycles <= MaxCyclesBeforeAdd
    /\ adds' = adds + 1
    /\ step' = "add_boat"
    /\ \E name \in names :
          IF colors = <<>>
          THEN AddBoatRaised(name)
          ELSE \E color \in FirstColors(max_draw) :
                   add_boat(name, ShareUrl(name), color)
    /\ UNCHANGED <<map, proximity_circle, now, pc, idx, cycles, refreshed,
                   cycle_result, last_call, last_closest, waited>>

\* lines 264-270
InitializeMap ==
    /\ pc = "idle"
    /\ map' = Some("folium.Map")
    /\ step' = "initialize_map"
    /\ UNCHANGED <<boats, order, colors, last_update_time, proximity_circle, now, pc,
                   idx, cycles, adds, refreshed, cycle_result, last_call, last_add,
                   last_closest, appended, waited>>

\* Time passing between two refresh cycles (one idle period is explored)
Elapse ==
    /\ pc = "idle"
    /\ ~waited
    /\ \E d \in Deltas : now' = now + d
    /\ waited' = TRUE
    /\ step' = "elapse"
    /\ UNCHANGED <<boats, order, colors, last_update_time, map, proximity_circle, pc,
                   idx, cycles, adds, refreshed, cycle_result, last_call, last_add,
                   last_closest, appended>>

\* lines 272-276: update_positions up to the head of its loop
StartUpdatePositions(max_cycles) ==
    /\ pc = "idle"
    /\ cycles < max_cycles
    /\ cycles' = cycles + 1
    /\ map' = IF map = None THEN Some("folium.Map") ELSE map
    /\ pc' = "loop"
    /\ idx' = 1
    /\ refreshed' = <<>>
    /\ cycle_result' = "running"
    /\ waited' = FALSE
    /\ step' = "update_positions"
    /\ UNCHANGED <<boats, order, colors, last_update_time, proximity_circle, now, adds,
                   last_call, last_add, last_closest, appended>>

\* the history is appended to, the last-known Fix is left as it was
BoatAfterPositionKeepsLastUpdate(info, position) ==
    IF ~Truthy(position) THEN info
    ELSE [info EXCEPT
            !.history = DequeAppend(@, <<position[1].lat, position[1].lon>>)]

\* The calls into folium (Marker, PolyLine, Circle, add_to, remove_layer)
\* are taken to return normally and to change nothing of the tracker but
\* the map they draw on.
\*
\* lines 236-262: what update_boat_position does to boat_info with the
\* position that get_position returned
BoatAfterPosition(info, position) ==
    IF ~Truthy(position) THEN info
    ELSE LET p == position[1]
             history == DequeAppend(info.history, <<p.lat, p.lon>>)
             updated == [info EXCEPT !.history = history, !.last_update = position]
         IN  IF PopupRaises(p) THEN updated
             ELSE [updated EXCEPT
                      !.marker = Some([location |-> <<p.lat, p.lon>>, color |-> info.color]),
                      !.path = IF Len(history) > 1
                               THEN Some([locations |-> history, color |-> info.color])
                               ELSE info.path]

\* every boat_info receives what the refresh of one boat produced
StoreBoatInAll(b, info) == [x \in DOMAIN boats |-> info]

\* boat_info is the dict held in self.boats[boat_name]: assigning to its
\* keys changes that entry of the registry and no other
StoreBoat(b, info) == [boats EXCEPT ![b] = info]

\* update_boat_position raises when create_popup_content does
UpdateRaises(position) == Truthy(position) /\ PopupRaises(position[1])

\* One turn of the loop of update_positions: lines 276-277 and 233-262,
\* the provider answering with one of AnswersFor or SteadyAnswersFor
UpdateBoatPositionOn(steady) ==
    /\ pc = "loop"
    /\ idx <= Len(order)
    /\ LET b == order[idx]
       IN  \E a \in (IF steady THEN SteadyAnswersFor(b, now) ELSE AnswersFor(b, now)) :
             LET out == get_position(b, now, a[1], a[2], a[3])
                 fetched == [boats[b] EXCEPT !.cached_position = out.cached]
             IN  /\ last_call' = [boat |-> b, time |-> now, ret |-> out.ret,
                                  requests |-> out.requests, log |-> out.log,
                                  raised |-> out.raised,
                                  cached_before |-> boats[b].cached_position,
                                  lut_before |-> last_update_time[b],
                                  boats_before |-> boats,
                                  times_before |-> last_update_time]
                 /\ refreshed' = Append(refreshed, b)
                 /\ now' = now + out.slept
                 /\ last_update_time' = [last_update_time EXCEPT ![b] = out.lut]
                 /\ IF out.raised
                    THEN /\ boats' = StoreBoat(b, fetched)
                         /\ UNCHANGED appended
                         /\ pc' = "idle" /\ idx' = 0 /\ cycle_result' = "raised"
                    ELSE /\ boats' = StoreBoat(b, BoatAfterPosition(fetched, out.ret))
                         /\ appended' =
                              IF Truthy(out.ret)
                              THEN [appended EXCEPT
                                      ![b] = Append(@, <<out.ret[1].lat, out.ret[1].lon>>)]
                              ELSE appended
                         /\ IF UpdateRaises(out.ret)
                            THEN pc' = "idle" /\ idx' = 0 /\ cycle_result' = "raised"
                            ELSE pc' = "loop" /\ idx' = idx + 1 /\ UNCHANGED cycle_result
    /\ step' = "update_boat_position"
    /\ UNCHANGED <<order, colors, map, proximity_circle, cycles, adds, last_add,
                   last_closest, waited>>

\* a circle that is drawn although no boat was found
ProximityCircleAlways ==
    Some([location |-> <<Some(noronha_coords[1]), Some(noronha_coords[2])>>,
          radius |-> nautical_miles_to_meters(RadiusNm),
          boat |-> "",
          distance |-> 0])

\* lines 208-231
ProximityCircle ==
    LET closest == find_closest_boat_to_noronha
    IN  IF Truthy(closest[1]) /\ Truthy(closest[2])
        THEN Some([location |-> <<closest[2][1].lat, closest[2][1].lon>>,
                   radius |-> nautical_miles_to_meters(RadiusNm),
                   boat |-> closest[1][1],
                   distance |-> closest[3][1]])
        ELSE proximity_circle

\* the loop leaves after its first turn
LoopDoneAfterFirst == idx > 1

\* line 276: the for-loop over self.boats.items() is exhausted
LoopDone == idx > Len(order)

\* lines 279-281: the end of update_positions
UpdateProximityCircle ==
    /\ pc = "loop"
    /\ LoopDone
    /\ IF FindClosestRaises
       THEN /\ cycle_result' = "raised"
            /\ last_closest' = [result |-> "raised", closest |-> <<None, None, None>>,
                                circle_before |-> proximity_circle]
            /\ UNCHANGED proximity_circle
       ELSE /\ cycle_result' = "ok"
            /\ last_closest' = [result |-> "ok", closest |-> find_closest_boat_to_noronha,
                                circle_before |-> proximity_circle]
            /\ proximity_circle' = ProximityCircle
    /\ pc' = "idle"
    /\ idx' = 0
    /\ step' = "update_proximity_circle"
    /\ UNCHANGED <<boats, order, colors, last_update_time, map, now, cycles, adds,
                   refreshed, last_call, last_add, appended, waited>>

AddBoat == AddBoatFrom(MaxAdds, MaxDraw, Names)
BeginUpdatePositions == StartUpdatePositions(MaxCycles)
UpdateBoatPosition == UpdateBoatPositionOn(FALSE)

Next ==
    \/ AddBoat
    \/ InitializeMap
    \/ Elapse
    \/ BeginUpdatePositions
    \/ UpdateBoatPosition
    \/ UpdateProximityCircle

Spec == Init /\ [][Next]_vars

\* The same tracker over more refresh cycles of a provider that is up
BeginSteadyUpdatePositions == StartUpdatePositions(MaxSteadyCycles)
UpdateBoatPositionSteady == UpdateBoatPositionOn(TRUE)

NextSteady ==
    \/ AddBoat
    \/ InitializeMap
    \/ Elapse
    \/ BeginSteadyUpdatePositions
    \/ UpdateBoatPositionSteady
    \/ UpdateProximityCircle

SpecSteady == Init /\ [][NextSteady]_vars

\* A tracker that only registers boats: each call names the next boat of
\* the fleet or, again, the boat registered first, and random.choice draws
\* any color of the palette still available
NextNames ==
    {Fleet[IF Len(order) < Len(Fleet) THEN Len(order) + 1 ELSE Len(Fleet)]}
    \cup (IF order = <<>> THEN {} ELSE {order[1]})

RegisterBoat == AddBoatFrom(MaxRegistrations, Len(Palette), NextNames)

NextRegistry == RegisterBoat

SpecRegistry == Init /\ [][NextRegistry]_vars

TypeOK ==
    /\ DOMAIN boats = Range(order)
    /\ DOMAIN last_update_time = Range(order)
    /\ pc \in {"idle", "loop"}

-----------------------------------------------------------------------------
(* Vocabulary of the properties *)

\* the state is the one update_boat_position left: last_call is the call
\* it made, for the vessel Called
JustCalled == step = "update_boat_position"
Called == last_call.boat

\* the loop of update_positions went on to the next vessel
LoopGoesOn == pc = "loop" /\ idx = Len(refreshed) + 1

ErrorMessages ==
    {"error_status", "error_json", "error_nolocations", "error_timeout",
     "error_exception"}

\* the call reported an error with st.error
Failed(call) == \E i \in 1..Len(call.log) : call.log[i] \in ErrorMessages

\* the last answer the call received
FinalResponse(call) == call.requests[Len(call.requests)].resp

\* the places of the feed requests among the requests of the call
FeedRequests(call) ==
    {i \in 1..Len(call.requests) : Len(call.requests[i].url) = 4}

\* a 200 whose locations list starts with an entry get_position can read
GoodPayload(r) ==
    r.kind = "http" /\ r.status = 200 /\ r.body = "locs" /\ ~ParseRaises(r.entry)

Is429(r) == r.kind = "http" /\ r.status = 429

Registered == Range(order)

-----------------------------------------------------------------------------
\* C1: a get_position call made less than 300 seconds after the vessel's
\* last stored fetch sends no HTTP request and returns the vessel's cached
\* Fix, so a second call within the window adds no network retrieval.
C1_CooldownServesCache ==
    (/\ JustCalled
     /\ last_call.lut_before # 0
     /\ last_call.time - last_call.lut_before < CooldownSecs)
    => /\ last_call.requests = <<>>
       /\ Truthy(last_call.ret)
       /\ last_call.ret = last_call.cached_before
       /\ boats[Called].cached_position = last_call.cached_before
       /\ last_update_time[Called] = last_call.lut_before

\* a call answered from the cache some time after the fetch that filled it
C1_Witness ==
    /\ JustCalled
    /\ last_call.requests = <<>>
    /\ last_call.log = <<"info_cache">>
    /\ last_call.lut_before # 0
    /\ last_call.time - last_call.lut_before > 100
    /\ last_call.time - last_call.lut_before < CooldownSecs
    /\ Truthy(last_call.ret)
    /\ last_call.ret = boats[Called].cached_position

\* C2: when the last answer of the feed is a non-200 status, a body that
\* is no JSON, or a body without locations, get_position returns the
\* vessel's cached Fix if there is one and None only if there is none.
C2_BadAnswerFallsBackToCache ==
    (/\ JustCalled
     /\ last_call.log # <<>>
     /\ last_call.log[Len(last_call.log)]
          \in {"error_status", "error_json", "error_nolocations"})
    => last_call.ret = last_call.cached_before

\* C3: a timeout of any request of a fetch is handled like the other
\* failures: the cached Fix is returned if there is one, None otherwise.
C3_TimeoutFallsBackToCache ==
    (/\ JustCalled
     /\ last_call.requests # <<>>
     /\ FinalResponse(last_call).kind = "timeout")
    => last_call.ret = last_call.cached_before

C5_Second429Fails ==
    (/\ JustCalled
     /\ Len(last_call.requests) = 3
     /\ Is429(last_call.requests[3].resp))
    => /\ FeedRequests(last_call) = {2, 3}
       /\ last_call.ret = None
       /\ Failed(last_call)
       /\ boats[Called].cached_position = last_call.cached_before
       /\ last_update_time[Called] = last_call.lut_before

\* two 429 in a row for a vessel that keeps its cached Fix
C5_Witness ==
    /\ JustCalled
    /\ Len(last_call.requests) = 3
    /\ Is429(last_call.requests[2].resp)
    /\ Is429(last_call.requests[3].resp)
    /\ last_call.ret = None
    /\ Truthy(last_call.cached_before)
    /\ boats[Called].cached_position = last_call.cached_before
    /\ last_call.lut_before # 0
    /\ last_call.time >= last_call.lut_before + CooldownSecs

\* C6 as claimed: whenever the last answer of the feed is a 200 with a
\* non-empty locations list, get_position returns the Fix built from the
\* first entry, and afterwards the cached Fix is that Fix and the
\* last-fetch time is the time of the call.
C6_Original ==
    (/\ JustCalled
     /\ last_call.requests # <<>>
     /\ FinalResponse(last_call).kind = "http"
     /\ FinalResponse(last_call).status = 200
     /\ FinalResponse(last_call).body = "locs")
    => /\ last_call.ret = Some(position_data(FinalResponse(last_call).entry))
       /\ boats[Called].cached_position = last_call.ret
       /\ last_update_time[Called] = last_call.time

\* C6 as amended: the same, for a first entry whose speed and elevation are
\* each absent or an object.
C6_SuccessStoresFix ==
    (/\ JustCalled
     /\ last_call.requests # <<>>
     /\ GoodPayload(FinalResponse(last_call)))
    => /\ last_call.ret = Some(position_data(FinalResponse(last_call).entry))
       /\ (FinalResponse(last_call).entry = EntryFull =>
             last_call.ret[1] = [lat |-> <<-50000>>, lon |-> <<-350000>>,
                                 timestamp |-> <<1700>>, speed |-> <<5>>,
                                 course |-> <<90>>, elevation |-> <<3>>])
       /\ (FinalResponse(last_call).entry = EntryBare =>
             last_call.ret[1] = [lat |-> <<-40000>>, lon |-> <<-330000>>,
                                 timestamp |-> <<>>, speed |-> <<0>>,
                                 course |-> <<0>>, elevation |-> <<0>>])
       /\ boats[Called].cached_position = last_call.ret
       /\ last_update_time[Called] = last_call.time

\* a second successful fetch of a vessel, replacing the Fix cached before
C6_Witness ==
    /\ JustCalled
    /\ last_call.requests # <<>>
    /\ FinalResponse(last_call) = Http(200, "locs", EntryFull)
    /\ last_call.ret = Some(position_data(EntryFull))
    /\ last_call.cached_before = Some(position_data(EntryBare))
    /\ boats[Called].cached_position = last_call.ret
    /\ last_update_time[Called] = last_call.time
    /\ last_call.lut_before # 0
    /\ last_call.time > last_call.lut_before

\* C7: for a vessel without a cached Fix, every failing outcome of a fetch
\* (status, body, missing locations, timeout, connection error) makes
\* get_position return None, and no outcome makes it raise.
C7_NoCacheFailureYieldsNone ==
    (JustCalled /\ last_call.cached_before = None)
    => /\ ~last_call.raised
       /\ Failed(last_call) => last_call.ret = None
       /\ ~Failed(last_call) =>
             /\ Truthy(last_call.ret)
             /\ GoodPayload(FinalResponse(last_call))
       /\ last_call.ret = None => LoopGoesOn

\* a connection error answered with None for a vessel that has no cache
C7_Witness ==
    /\ JustCalled
    /\ last_call.requests # <<>>
    /\ FinalResponse(last_call).kind = "connerr"
    /\ last_call.log[Len(last_call.log)] = "error_exception"
    /\ last_call.cached_before = None
    /\ last_call.ret = None
    /\ ~last_call.raised
    /\ LoopGoesOn

\* C8: every turn of the loop of update_positions invokes the fetcher for
\* the next vessel in registration order, and a turn whose fetch fails goes
\* on to the vessel registered after it.
C8_FailureNeverAbortsCycle ==
    JustCalled =>
        /\ refreshed = SubSeq(order, 1, Len(refreshed))
        /\ Called = refreshed[Len(refreshed)]
        /\ Failed(last_call) => LoopGoesOn

\* C9: a vessel's history never holds more than history_length entries,
\* and it is always the last min(k, history_length) of the k positions
\* appended so far, in the order they arrived.
C9_HistoryHoldsMostRecent ==
    \A b \in Registered :
        LET history == boats[b].history
            k == Len(appended[b])
            n == IF k < HistoryLength THEN k ELSE HistoryLength
        IN  /\ Len(history) <= HistoryLength
            /\ Len(history) = n
            /\ \A i \in 1..n : history[i] = appended[b][k - n + i]

\* a full history that has dropped two entries and holds two different ones
C9_Witness ==
    \E b \in Registered :
        /\ Len(appended[b]) >= HistoryLength + 2
        /\ Len(boats[b].history) = HistoryLength
        /\ boats[b].history[1] # boats[b].history[HistoryLength]
        /\ appended[b][1] # appended[b][2]

\* C10: every history entry and every cached or last-known Fix has a
\* latitude and a longitude, whatever the provider's entries lack.
C10_NoPartialFixStored ==
    \A b \in Registered :
        /\ \A i \in 1..Len(boats[b].history) :
              boats[b].history[i][1] # None /\ boats[b].history[i][2] # None
        /\ Truthy(boats[b].cached_position) =>
              /\ boats[b].cached_position[1].lat # None
              /\ boats[b].cached_position[1].lon # None
        /\ Truthy(boats[b].last_update) =>
              /\ boats[b].last_update[1].lat # None
              /\ boats[b].last_update[1].lon # None

\* C13: after any sequence of add_boat calls no two registered vessels
\* have the same color, no assigned color is still in the palette, and six
\* registered vessels carry six different colors.
C13_ColorsUnique ==
    /\ \A a, b \in Registered : a # b => boats[a].color # boats[b].color
    /\ \A b \in Registered : boats[b].color \notin Range(colors)
    /\ Len(order) = Len(Palette) =>
          Cardinality({boats[b].color : b \in Registered}) = Len(Palette)

\* six vessels registered, the draws not following the order of the palette
C13_Witness ==
    /\ step = "add_boat"
    /\ Len(order) = 6
    /\ colors = <<>>
    /\ {boats[b].color : b \in Registered} = Range(Palette)
    /\ boats[order[1]].color = "darkred"
    /\ boats[order[6]].color = "blue"

\* C14: an add_boat call that finds the palette exhausted fails, as the
\* 7th registration on a fresh tracker does, and a failed call leaves
\* boats, last_update_time and the palette as it found them.
C14_ExhaustedPaletteFails ==
    step = "add_boat" =>
        /\ last_add.colors_before = <<>> => last_add.result = "raised"
        /\ adds = Len(Palette) + 1 => last_add.result = "raised"
        /\ last_add.result = "raised" =>
              /\ boats = last_add.boats_before
              /\ last_update_time = last_add.times_before
              /\ colors = last_add.colors_before

\* the 7th registration, of a new name, after six vessels were registered
C14_Witness ==
    /\ step = "add_boat"
    /\ adds = 7
    /\ last_add.result = "raised"
    /\ last_add.name = "Septima"
    /\ Len(order) = 6
    /\ "Septima" \notin DOMAIN boats
    /\ boats = last_add.boats_before
    /\ colors = <<>>

-----------------------------------------------------------------------------
(* Vocabulary of the proximity properties *)

\* the state is the one update_proximity_circle left
JustEvaluated == step = "update_proximity_circle"

\* the vessels that have a last-known Fix
WithFix == {b \in Registered : Truthy(boats[b].last_update)}

\* the place of a vessel in the order of registration
Place(b) == CHOOSE i \in 1..Len(order) : order[i] = b

\* the distance of a vessel's last-known Fix to the reference point
DistanceOf(b) ==
    calculate_distance(noronha_coords[1], noronha_coords[2],
                       boats[b].last_update[1].lat[1], boats[b].last_update[1].lon[1])

NothingFound == <<None, None, None>>

\* C11: when some vessel has a last-known Fix, find_closest_boat_to_noronha
\* returns one of the vessels that have one, with its Fix and its distance;
\* no vessel with a Fix is nearer to the reference point, and the vessels at
\* the same distance were all registered later.
C11_ClosestIsFirstMinimum ==
    (JustEvaluated /\ WithFix # {}) =>
        /\ last_closest.result = "ok"
        /\ Truthy(last_closest.closest[1])
        /\ LET c == last_closest.closest[1][1]
           IN  /\ c \in WithFix
               /\ last_closest.closest[2] = boats[c].last_update
               /\ last_closest.closest[3] = Some(DistanceOf(c))
               /\ \A b \in WithFix :
                     /\ DistanceOf(c) <= DistanceOf(b)
                     /\ DistanceOf(b) = DistanceOf(c) => Place(c) <= Place(b)

\* C12: when no registered vessel has a last-known Fix,
\* find_closest_boat_to_noronha returns no vessel, no Fix and an infinite
\* distance, and update_proximity_circle leaves the tracker without a new
\* circle.
C12_NoFixNoCircle ==
    (JustEvaluated /\ WithFix = {}) =>
        /\ last_closest.result = "ok"
        /\ last_closest.closest = NothingFound
        /\ proximity_circle = last_closest.circle_before

\* two registered vessels, none with a Fix after two cycles of failures
C12_Witness ==
    /\ JustEvaluated
    /\ Len(order) = 2
    /\ cycles = 2
    /\ refreshed = order
    /\ WithFix = {}
    /\ Failed(last_call)
    /\ last_closest.result = "ok"
    /\ last_closest.closest = NothingFound
    /\ last_closest.circle_before = None
    /\ proximity_circle = None

\* C16: update_proximity_circle runs when every registered vessel has been
\* refreshed in this cycle, in registration order, and what it finds is the
\* last-known Fix the nearest vessel has at that moment.
C16_ProximityAfterAllRefreshed ==
    JustEvaluated =>
        /\ refreshed = order
        /\ order # <<>> => last_call.boat = order[Len(order)]
        /\ (last_closest.result = "ok" /\ Truthy(last_closest.closest[1])) =>
              LET c == last_closest.closest[1][1]
              IN  /\ last_closest.closest[2] = boats[c].last_update
                  /\ Truthy(proximity_circle)
                  /\ proximity_circle[1].boat = c
                  /\ proximity_circle[1].location
                       = <<boats[c].last_update[1].lat, boats[c].last_update[1].lon>>

\* the nearest vessel is the one refreshed last, with the Fix that this
\* cycle's fetch put in place of an older one
C16_Witness ==
    /\ JustEvaluated
    /\ Len(order) = 2
    /\ cycles = 2
    /\ refreshed = order
    /\ last_call.boat = order[2]
    /\ last_call.requests # <<>>
    /\ Truthy(last_call.ret)
    /\ Truthy(last_call.cached_before)
    /\ last_call.ret # last_call.cached_before
    /\ last_closest.result = "ok"
    /\ last_closest.closest[1] = Some(order[2])
    /\ last_closest.closest[2] = last_call.ret
    /\ proximity_circle[1].boat = order[2]
    /\ proximity_circle # last_closest.circle_before

-----------------------------------------------------------------------------
(* Vocabulary of the frame properties *)

\* the refreshed vessel as update_boat_position found it
Before == last_call.boats_before[Called]

\* the call went to the network and came back with the Fix of the answer
NewlyFetched(call) ==
    call.requests # <<>> /\ ~Failed(call) /\ Truthy(call.ret)

\* update_boat_position returned, it did not raise
Completed == JustCalled /\ LoopGoesOn

\* C15: a refresh that does not come back with a newly fetched Fix (a
\* cooldown hit, a failure answered from the cache, a fetch without data)
\* leaves the history of the vessel as it was.
C15_HistoryGrowsOnlyByNewFix ==
    (JustCalled /\ ~NewlyFetched(last_call)) =>
        boats[Called].history = Before.history

\* C17: a refresh whose get_position returns None leaves the cached Fix,
\* the last-fetch time, the last-known Fix and the history of the vessel
\* unchanged, and the cooldown gate stays open for the next call; no
\* refresh clears a last-known Fix.
C17_NoDataChangesNothing ==
    JustCalled =>
        /\ last_call.ret = None =>
              /\ boats[Called].cached_position = last_call.cached_before
              /\ last_update_time[Called] = last_call.lut_before
              /\ boats[Called].last_update = Before.last_update
              /\ boats[Called].history = Before.history
              /\ ~(/\ now - last_update_time[Called] < CooldownSecs
                   /\ Truthy(boats[Called].cached_position))
        /\ Truthy(Before.last_update) => Truthy(boats[Called].last_update)

\* a timeout for a vessel that keeps the Fix, time and history it had
C17_Witness ==
    /\ JustCalled
    /\ last_call.requests # <<>>
    /\ FinalResponse(last_call).kind = "timeout"
    /\ last_call.ret = None
    /\ Truthy(last_call.cached_before)
    /\ Truthy(Before.last_update)
    /\ Before.history # <<>>
    /\ last_call.lut_before # 0
    /\ boats[Called] = Before
    /\ last_update_time[Called] = last_call.lut_before
    /\ now - last_update_time[Called] >= CooldownSecs

\* C18: after every update_boat_position that returned, each vessel's
\* last-known Fix is its cached Fix, its last-fetch time is non-zero
\* exactly when it has a cached Fix, and its history is non-empty exactly
\* when it has a last-known Fix, whose coordinates are the newest entry.
C18_FixTimeHistoryAgree ==
    Completed =>
        \A b \in Registered :
            /\ boats[b].last_update = boats[b].cached_position
            /\ (last_update_time[b] # 0) = Truthy(boats[b].cached_position)
            /\ (boats[b].history # <<>>) = Truthy(boats[b].last_update)
            /\ Truthy(boats[b].last_update) =>
                  boats[b].history[Len(boats[b].history)]
                    = <<boats[b].last_update[1].lat, boats[b].last_update[1].lon>>

\* one vessel with two different history entries, the newest of its
\* last-known Fix, and one vessel that never had a Fix
C18_Witness ==
    /\ Completed
    /\ Len(order) = 2
    /\ Len(boats[order[2]].history) = 2
    /\ boats[order[2]].history[1] # boats[order[2]].history[2]
    /\ Truthy(boats[order[2]].last_update)
    /\ last_update_time[order[2]] # 0
    /\ boats[order[1]].history = <<>>
    /\ boats[order[1]].last_update = None
    /\ last_update_time[order[1]] = 0

\* C19: the refresh of one vessel, whatever its outcome, leaves the cached
\* Fix, last-fetch time, last-known Fix, history and color of every other
\* registered vessel as they were.
C19_OtherVesselsUntouched ==
    JustCalled =>
        /\ DOMAIN boats = DOMAIN last_call.boats_before
        /\ \A o \in Registered \ {Called} :
              /\ boats[o].cached_position = last_call.boats_before[o].cached_position
              /\ last_update_time[o] = last_call.times_before[o]
              /\ boats[o].last_update = last_call.boats_before[o].last_update
              /\ boats[o].history = last_call.boats_before[o].history
              /\ boats[o].color = last_call.boats_before[o].color

\* the second vessel got a new Fix while the first kept a different one
C19_Witness ==
    /\ JustCalled
    /\ Len(order) = 2
    /\ Called = order[2]
    /\ NewlyFetched(last_call)
    /\ boats[Called] # Before
    /\ Truthy(boats[order[1]].last_update)
    /\ boats[order[1]].last_update # boats[Called].last_update
    /\ boats[order[1]] = last_call.boats_before[order[1]]
    /\ last_update_time[order[1]] # last_update_time[Called]

====
